---- MODULE Spec2Model ----
(***************************************************************************)
(* Model of src/src/image.rs of vtf-rs: VTFImage (get_frame, decode and    *)
(* their helpers), convert_bgra and ImageFormat::frame_size.               *)
(*                                                                         *)
(* A VTFImage is immutable after VTFImage::new, so the state is the image  *)
(* that was constructed, the build profile (overflow checks on or off) and *)
(* the last call made on it together with what that call produced.         *)
(***************************************************************************)
EXTENDS Integers, Sequences, FiniteSets, TLC

VARIABLES image, overflow_checks, call, result

vars == <<image, overflow_checks, call, result>>

(***************************************************************************)
(* Bounds of the model.                                                    *)
(***************************************************************************)
\* widths and heights of the images that carry a buffer: 0..MaxDim
MaxDim == 2
\* container buffers have 0..MaxLen bytes
MaxLen == 16
\* VTFImage.offset ranges over 0..MaxOffset
MaxOffset == 1
\* the header declares 1..MaxFrames frames; frame indices 0..MaxFrames are asked for
MaxFrames == 2

(***************************************************************************)
(* enum ImageFormat, in declaration order.                                 *)
(***************************************************************************)
ImageFormat ==
    { "None", "Rgba8888", "Abgr8888", "Rgb888", "Bgr888", "Rgb565", "I8",
      "Ia88", "P8", "A8", "Rgb888Bluescreen", "Bgr888Bluescreen", "Argb8888",
      "Bgra8888", "Dxt1", "Dxt3", "Dxt5", "Bgrx8888", "Bgr565", "Bgrx5551",
      "Bgra4444", "Dxt1Onebitalpha", "Bgra5551", "Uv88", "Uvwq8888",
      "Rgba16161616f", "Rgba16161616", "Uvlx8888" }

(***************************************************************************)
(* Result values.  Ok values carry one field named after what they hold;   *)
(* a panic (an unwinding abort of the call) is an outcome of its own.      *)
(***************************************************************************)
NoResult == [tag |-> "None"]
UnsupportedImageFormat(format) ==
    [tag |-> "Err", err |-> "UnsupportedImageFormat", format |-> format]
InvalidImageData == [tag |-> "Err", err |-> "InvalidImageData", format |-> "None"]
InvalidFrameIndex == [tag |-> "Err", err |-> "InvalidFrameIndex", format |-> "None"]
Panic(why) == [tag |-> "Panic", why |-> why]

(***************************************************************************)
(* u32 arithmetic.  A number is kept as two base-2^16 digits, hi and lo,   *)
(* so that products up to 2^36 are exact; a u32 is a number with           *)
(* hi < 2^16.                                                              *)
(***************************************************************************)
B16 == 256 * 256
Wide(hi, lo) == [hi |-> hi, lo |-> lo]
\* the exact product of two values below 2^16
MulU16(a, b) ==
    LET ah == a \div 256
        al == a % 256
        bh == b \div 256
        bl == b % 256
        mid == ah * bl + al * bh
        low == al * bl + (mid % 256) * 256
    IN  Wide(ah * bh + mid \div 256 + low \div B16, low % B16)
\* the exact product of a number and a small factor
Scale(x, k) ==
    LET t == x.lo * k
    IN  Wide(x.hi * k + t \div B16, t % B16)
FitsU32(x) == x.hi < B16
WrapU32(x) == Wide(x.hi % B16, x.lo)
\* `as usize` of a u32 that is small enough to be written as one integer
AsUsize(x) == x.hi * B16 + x.lo

(***************************************************************************)
(* The outcome of the last u32 multiplication of a size formula, whose     *)
(* exact value is x: with overflow checks (a debug build) an overflow      *)
(* panics, without them (a release build) the product wraps modulo 2^32.   *)
(***************************************************************************)
U32Product(x) ==
    IF FitsU32(x) THEN [tag |-> "Ok", size |-> x]
    ELSE IF overflow_checks THEN Panic("attempt to multiply with overflow")
    ELSE [tag |-> "Ok", size |-> WrapU32(x)]

\* (n + 3) / 4 in u32, n below 2^16
Blocks(n) == (n + 3) \div 4

\* frame_size with the Ia88 arm taking one byte per pixel
frame_size_ia88_one_byte(self, width, height) ==
    CASE self = "None" -> [tag |-> "Ok", size |-> Wide(0, 0)]
      [] self = "Rgba8888" -> U32Product(Scale(MulU16(width, height), 4))
      [] self = "Abgr8888" -> U32Product(Scale(MulU16(width, height), 4))
      [] self = "Rgb888" -> U32Product(Scale(MulU16(width, height), 3))
      [] self = "Bgr888" -> U32Product(Scale(MulU16(width, height), 3))
      [] self = "Rgb565" -> U32Product(Scale(MulU16(width, height), 2))
      [] self = "I8" -> U32Product(Scale(MulU16(width, height), 1))
      [] self = "Ia88" -> U32Product(Scale(MulU16(width, height), 1))
      [] self = "A8" -> U32Product(MulU16(width, height))
      [] self = "Argb8888" -> U32Product(Scale(MulU16(width, height), 4))
      [] self = "Bgra8888" -> U32Product(Scale(MulU16(width, height), 4))
      [] self = "Dxt1" -> U32Product(Scale(MulU16(Blocks(width), Blocks(height)), 8))
      [] self = "Dxt5" -> U32Product(Scale(MulU16(Blocks(width), Blocks(height)), 16))
      [] self = "Rgba16161616f" -> U32Product(Scale(MulU16(width, height), 8))
      [] self = "Rgba16161616" -> U32Product(Scale(MulU16(width, height), 8))
      [] OTHER -> UnsupportedImageFormat(self)

(***************************************************************************)
(* ImageFormat::frame_size(&self, width: u32, height: u32).  width and     *)
(* height are below 2^16 (get_frame widens u16 fields), so width * height  *)
(* and the block count fit a u32 and only the last product can overflow.   *)
(***************************************************************************)
frame_size(self, width, height) ==
    CASE self = "None" -> [tag |-> "Ok", size |-> Wide(0, 0)]
      [] self = "Rgba8888" -> U32Product(Scale(MulU16(width, height), 4))
      [] self = "Abgr8888" -> U32Product(Scale(MulU16(width, height), 4))
      [] self = "Rgb888" -> U32Product(Scale(MulU16(width, height), 3))
      [] self = "Bgr888" -> U32Product(Scale(MulU16(width, height), 3))
      [] self = "Rgb565" -> U32Product(Scale(MulU16(width, height), 2))
      [] self = "I8" -> U32Product(Scale(MulU16(width, height), 1))
      [] self = "Ia88" -> U32Product(Scale(MulU16(width, height), 2))
      [] self = "A8" -> U32Product(MulU16(width, height))
      [] self = "Argb8888" -> U32Product(Scale(MulU16(width, height), 4))
      [] self = "Bgra8888" -> U32Product(Scale(MulU16(width, height), 4))
      [] self = "Dxt1" -> U32Product(Scale(MulU16(Blocks(width), Blocks(height)), 8))
      [] self = "Dxt5" -> U32Product(Scale(MulU16(Blocks(width), Blocks(height)), 16))
      [] self = "Rgba16161616f" -> U32Product(Scale(MulU16(width, height), 8))
      [] self = "Rgba16161616" -> U32Product(Scale(MulU16(width, height), 8))
      [] OTHER -> UnsupportedImageFormat(self)

(***************************************************************************)
(* crate::utils::get_offset(header, format, frame, face, slice, mip): the  *)
(* byte offset of a frame in the pixel data.  An index outside the header's*)
(* frames fails; frames of the one mip level lie one after the other, each *)
(* frame_size(format, header.width, header.height) bytes long.             *)
(***************************************************************************)
get_offset(header, format, frame, face, slice, mip) ==
    IF frame >= header.frames THEN InvalidFrameIndex
    ELSE LET fs == frame_size(format, header.width, header.height)
         IN  IF fs.tag # "Ok" THEN fs
             ELSE [tag |-> "Ok", offset |-> frame * AsUsize(fs.size)]

\* the slice &bytes[start..end]; a range that ends past the buffer panics
Slice(bytes, start, end) ==
    IF start > end THEN Panic("slice index starts after its end")
    ELSE IF end > Len(bytes) THEN Panic("range end index out of range for slice")
    ELSE [tag |-> "Ok", base |-> start, view |-> SubSeq(bytes, start + 1, end)]

\* get_frame that leaves self.offset out of base
get_frame_no_base_offset(self, frame) ==
    LET fs == frame_size(self.format, self.width, self.height)
    IN  IF fs.tag # "Ok" THEN fs
        ELSE LET off == get_offset(self.header, self.format, frame, 0, 0, 0)
             IN  IF off.tag # "Ok" THEN off
                 ELSE LET base == off.offset
                      IN  Slice(self.bytes, base, base + AsUsize(fs.size))

\* get_frame that asks get_offset before it looks at frame_size's result
get_frame_offset_first(self, frame) ==
    LET off == get_offset(self.header, self.format, frame, 0, 0, 0)
    IN  IF off.tag # "Ok" THEN off
        ELSE LET fs == frame_size(self.format, self.width, self.height)
             IN  IF fs.tag # "Ok" THEN fs
                 ELSE LET base == self.offset + off.offset
                      IN  Slice(self.bytes, base, base + AsUsize(fs.size))

(***************************************************************************)
(* VTFImage::get_frame(&self, frame).  Each `?` returns the error of the   *)
(* step before going on; the view is a slice of self.bytes, which is       *)
(* recorded by its start (base) and its bytes.                             *)
(***************************************************************************)
get_frame(self, frame) ==
    LET fs == frame_size(self.format, self.width, self.height)
    IN  IF fs.tag # "Ok" THEN fs
        ELSE LET off == get_offset(self.header, self.format, frame, 0, 0, 0)
             IN  IF off.tag # "Ok" THEN off
                 ELSE LET base == self.offset + off.offset
                      IN  Slice(self.bytes, base, base + AsUsize(fs.size))

(***************************************************************************)
(* texpresso's Format::decompress(bytes, width, height, output): the block *)
(* decompressor, an external pure function of the compressed bytes and the *)
(* dimensions that fills all width * height * 4 bytes of output.  Pixel    *)
(* (x, y) is taken from the block that covers it; the arithmetic on the    *)
(* block's bytes stands for the library's colour interpolation.            *)
(***************************************************************************)
BlockBytes(variant) == IF variant = "Bc1" THEN 8 ELSE 16
VariantCode(variant) ==
    CASE variant = "Bc1" -> 1 [] variant = "Bc2" -> 2 [] OTHER -> 3
Decompress(variant, bytes, width, height) ==
    [i \in 1..(width * height * 4) |->
        LET p == (i - 1) \div 4
            c == (i - 1) % 4
            x == p % width
            y == p \div width
            block == (y \div 4) * Blocks(width) + (x \div 4)
            at == block * BlockBytes(variant) + 1 + ((4 * (y % 4) + (x % 4)) % 8)
        IN  (bytes[at] + 17 * c + VariantCode(variant)) % 256]

\* VTFImage::decode_dxt(&self, bytes, variant): vec![0; w * h * 4], filled
decode_dxt(self, bytes, variant) ==
    Decompress(variant, bytes, self.width, self.height)

Channels(kind) == IF kind = "ImageRgba8" THEN 4 ELSE 3

(***************************************************************************)
(* VTFImage::image_from_buffer(&self, buffer, format): ImageBuffer::       *)
(* from_raw keeps the container as it is when it holds at least            *)
(* width * height * channels values, and is None otherwise.                *)
(***************************************************************************)
image_from_buffer(self, buffer, kind) ==
    IF self.width * self.height * Channels(kind) <= Len(buffer)
    THEN [tag |-> "Ok",
          image |-> [kind |-> kind, width |-> self.width,
                     height |-> self.height, buf |-> buffer]]
    ELSE InvalidImageData

(***************************************************************************)
(* convert_bgra(bgra): in every complete chunk of four bytes, bytes 0 and 2*)
(* change places; a trailing chunk of fewer than four bytes is left alone. *)
(***************************************************************************)
convert_bgra(bgra) ==
    [i \in 1..Len(bgra) |->
        LET chunk == (i - 1) \div 4
            k == (i - 1) % 4
        IN  IF 4 * chunk + 4 > Len(bgra) THEN bgra[i]
            ELSE IF k = 0 THEN bgra[i + 2]
            ELSE IF k = 2 THEN bgra[i - 2]
            ELSE bgra[i]]

(***************************************************************************)
(* VTFImage::decode(&self, frame).                                         *)
(***************************************************************************)
decode(self, frame) ==
    LET got == get_frame(self, frame)
    IN  IF got.tag # "Ok" THEN got
        ELSE LET bytes == got.view
             IN  CASE self.format = "Dxt1" ->
                        image_from_buffer(self, decode_dxt(self, bytes, "Bc1"), "ImageRgba8")
                   [] self.format = "Dxt1Onebitalpha" ->
                        image_from_buffer(self, decode_dxt(self, bytes, "Bc1"), "ImageRgba8")
                   [] self.format = "Dxt3" ->
                        image_from_buffer(self, decode_dxt(self, bytes, "Bc2"), "ImageRgba8")
                   [] self.format = "Dxt5" ->
                        image_from_buffer(self, decode_dxt(self, bytes, "Bc3"), "ImageRgba8")
                   [] self.format = "Rgba8888" ->
                        image_from_buffer(self, bytes, "ImageRgba8")
                   [] self.format = "Rgb888" ->
                        image_from_buffer(self, bytes, "ImageRgb8")
                   [] self.format = "Bgr888" ->
                        image_from_buffer(self, convert_bgra(bytes), "ImageRgb8")
                   [] self.format = "Bgra8888" ->
                        image_from_buffer(self, convert_bgra(bytes), "ImageRgb8")
                   [] OTHER -> UnsupportedImageFormat(self.format)

(***************************************************************************)
(* The images and calls of the model.                                      *)
(***************************************************************************)
Dims == 0..MaxDim
\* widths and heights frame_size is asked about on its own: the table of
\* small sizes and the largest values a u16 holds
SizeDims == {0, 1, 4, 17, 256, 32768, 65533, 65535}

\* container contents: bytes that all differ, in every length, and full-length
\* buffers that are all zero or the pixel [B=10, G=20, R=30, A=40] repeated
Fill(kind, i) ==
    CASE kind = "zero" -> 0
      [] kind = "bgra" -> 10 * (((i - 1) % 4) + 1)
      [] OTHER -> 100 + i
Buffers ==
    { [i \in 1..n |-> Fill("ramp", i)] : n \in 0..MaxLen }
        \cup { [i \in 1..MaxLen |-> Fill(kind, i)] : kind \in {"zero", "bgra"} }

\* VTFImage::new: the fields as given; the header declares the image's size
new(header, format, width, height, bytes, offset) ==
    [header |-> header, format |-> format, width |-> width, height |-> height,
     bytes |-> bytes, offset |-> offset]

VTFHeader(width, height, frames) ==
    [width |-> width, height |-> height, frames |-> frames]

NoCall == [op |-> "new", format |-> "None", width |-> 0, height |-> 0, frame |-> 0]

Init ==
    /\ \E format \in ImageFormat, width \in Dims, height \in Dims,
          bytes \in Buffers, offset \in 0..MaxOffset, frames \in 1..MaxFrames :
          image = new(VTFHeader(width, height, frames), format, width, height, bytes, offset)
    /\ overflow_checks \in BOOLEAN
    /\ call = NoCall
    /\ result = NoResult

(***************************************************************************)
(* The caller is sequential: it makes one call on the image, takes the     *)
(* result (Return), and may then make the next call.                       *)
(***************************************************************************)
Idle == call.op = "new"

Return ==
    /\ ~Idle
    /\ call' = NoCall
    /\ result' = NoResult
    /\ UNCHANGED <<image, overflow_checks>>

\* self.format.frame_size(self.width as u32, self.height as u32)
FrameSizeCall ==
    /\ Idle
    /\ call' = [op |-> "frame_size", format |-> image.format,
                width |-> image.width, height |-> image.height, frame |-> 0]
    /\ result' = frame_size(image.format, image.width, image.height)
    /\ UNCHANGED <<image, overflow_checks>>

GetFrameCall ==
    \E frame \in 0..MaxFrames :
        /\ Idle
        /\ call' = [op |-> "get_frame", format |-> image.format,
                    width |-> image.width, height |-> image.height, frame |-> frame]
        /\ result' = get_frame(image, frame)
        /\ UNCHANGED <<image, overflow_checks>>

DecodeCall ==
    \E frame \in 0..MaxFrames :
        /\ Idle
        /\ call' = [op |-> "decode", format |-> image.format,
                    width |-> image.width, height |-> image.height, frame |-> frame]
        /\ result' = decode(image, frame)
        /\ UNCHANGED <<image, overflow_checks>>

Next == FrameSizeCall \/ GetFrameCall \/ DecodeCall \/ Return

Spec == Init /\ [][Next]_vars

(***************************************************************************)
(* frame_size on its own: any format, any of SizeDims, under either build  *)
(* profile; the image is one without pixel data.                           *)
(***************************************************************************)
InitSize ==
    /\ image = new(VTFHeader(0, 0, 1), "None", 0, 0, <<>>, 0)
    /\ overflow_checks \in BOOLEAN
    /\ call = NoCall
    /\ result = NoResult

FormatFrameSizeCall ==
    \E format \in ImageFormat, width \in SizeDims, height \in SizeDims :
        /\ Idle
        /\ call' = [op |-> "frame_size", format |-> format,
                    width |-> width, height |-> height, frame |-> 0]
        /\ result' = frame_size(format, width, height)
        /\ UNCHANGED <<image, overflow_checks>>

NextSize == FormatFrameSizeCall \/ Return

SpecSize == InitSize /\ [][NextSize]_vars

(***************************************************************************)
(* What the claims speak of.                                               *)
(***************************************************************************)
IsUnsupported(r, format) ==
    r.tag = "Err" /\ r.err = "UnsupportedImageFormat" /\ r.format = format
IsOk(r) == r.tag = "Ok"

\* the formats decode has an arm for
DecodeDispatch ==
    { "Dxt1", "Dxt1Onebitalpha", "Dxt3", "Dxt5", "Rgba8888", "Rgb888", "Bgr888",
      "Bgra8888" }
BlockCompressed == { "Dxt1", "Dxt1Onebitalpha", "Dxt3", "Dxt5" }
BytesPerBlock(format) == IF format \in {"Dxt1", "Dxt1Onebitalpha"} THEN 8 ELSE 16
\* the uncompressed formats with a size rule, and their bytes per pixel
BytesPerPixel ==
    ( "I8" :> 1 @@ "A8" :> 1 @@ "Rgb565" :> 2 @@ "Ia88" :> 2 @@ "Rgb888" :> 3
      @@ "Bgr888" :> 3 @@ "Rgba8888" :> 4 @@ "Abgr8888" :> 4 @@ "Argb8888" :> 4
      @@ "Bgra8888" :> 4 @@ "Rgba16161616f" :> 8 @@ "Rgba16161616" :> 8 )
\* the formats frame_size has no formula for
NoSizeRule ==
    { "Rgb888Bluescreen", "Bgr888Bluescreen", "P8", "Dxt3", "Bgrx8888", "Bgr565",
      "Bgrx5551", "Bgra4444", "Dxt1Onebitalpha", "Bgra5551", "Uv88", "Uvwq8888",
      "Uvlx8888" }
CeilDiv4(n) == (n + 3) \div 4
\* the byte count the size rules give a frame of the image, as an integer
Pixels == image.width * image.height
FrameBytes ==
    IF image.format \in BlockCompressed
    THEN CeilDiv4(image.width) * CeilDiv4(image.height) * BytesPerBlock(image.format)
    ELSE IF image.format \in DOMAIN BytesPerPixel
    THEN Pixels * BytesPerPixel[image.format]
    ELSE 0
\* where the frame asked for starts in the container, and whether the index
\* is one of the header's frames and the frame lies inside the container
FrameBase == image.offset + call.frame * FrameBytes
FrameValid == call.frame < image.header.frames
FrameInside == FrameValid /\ FrameBase + FrameBytes <= Len(image.bytes)
FrameByte(j) == image.bytes[FrameBase + j]

(***************************************************************************)
(* C1: whenever base + frame_size exceeds the length of the container      *)
(* buffer, get_frame returns an out-of-bounds error value; it does not     *)
(* panic and yields no view that extends past the end of the buffer.       *)
(***************************************************************************)
ExceedsBuffer ==
    LET fs == frame_size(image.format, image.width, image.height)
        off == get_offset(image.header, image.format, call.frame, 0, 0, 0)
    IN  /\ IsOk(fs)
        /\ IsOk(off)
        /\ image.offset + off.offset + AsUsize(fs.size) > Len(image.bytes)
C1_OutOfBoundsIsAnError ==
    (call.op = "get_frame" /\ ExceedsBuffer)
        => (result.tag = "Err" /\ result.err = "OutOfBounds")

(***************************************************************************)
(* C2: for every format outside the decode dispatch set, decode returns    *)
(* UnsupportedImageFormat(format), whatever the width, height, buffer and  *)
(* base offset; it never panics and returns no image.  Stated for the      *)
(* frame indices the header has, where get_frame's own code decides it.    *)
(***************************************************************************)
C2_OutsideDispatchIsUnsupported ==
    (call.op = "decode" /\ image.format \notin DecodeDispatch /\ FrameValid)
        => IsUnsupported(result, image.format)

(***************************************************************************)
(* C3: a Bgra8888 frame that is [10, 20, 30, 40] once per pixel decodes to *)
(* an RGB8 image of w * h * 3 bytes in which every pixel is [30, 20, 10].  *)
(***************************************************************************)
FrameIsBgraPattern ==
    \A j \in 1..FrameBytes : FrameByte(j) = 10 * (((j - 1) % 4) + 1)
C3_BgraDecodesToRgbPixels ==
    (call.op = "decode" /\ image.format = "Bgra8888" /\ FrameInside
     /\ FrameIsBgraPattern)
        => /\ IsOk(result)
           /\ result.image.kind = "ImageRgb8"
           /\ Len(result.image.buf) = Pixels * 3
           /\ \A i \in 0..(Pixels - 1) :
                 SubSeq(result.image.buf, 3 * i + 1, 3 * i + 3) = <<30, 20, 10>>

(***************************************************************************)
(* C4: for every block-compressed format and every width and height,       *)
(* frame_size is Ok(ceil(w/4) * ceil(h/4) * bytes_per_block), 8 bytes a    *)
(* block for the Dxt1 schemes and 16 for Dxt3 and Dxt5.                    *)
(***************************************************************************)
C4_BlockCompressedFrameSize ==
    (call.op = "frame_size" /\ call.format \in BlockCompressed)
        => /\ IsOk(result)
           /\ result.size = Scale(MulU16(CeilDiv4(call.width), CeilDiv4(call.height)),
                                  BytesPerBlock(call.format))

(***************************************************************************)
(* C5: for each block-compressed variant, decode of a frame that lies      *)
(* inside the container succeeds with an RGBA8 image whose buffer is the   *)
(* width * height * 4 bytes the block decompressor produces for the frame. *)
(***************************************************************************)
Variant(format) ==
    CASE format = "Dxt3" -> "Bc2" [] format = "Dxt5" -> "Bc3" [] OTHER -> "Bc1"
C5_BlockCompressedDecodes ==
    (call.op = "decode" /\ image.format \in BlockCompressed /\ FrameInside)
        => /\ IsOk(result)
           /\ result.image.kind = "ImageRgba8"
           /\ Len(result.image.buf) = Pixels * 4
           /\ result.image.buf =
                 Decompress(Variant(image.format),
                            SubSeq(image.bytes, FrameBase + 1, FrameBase + FrameBytes),
                            image.width, image.height)

TableDims == {0, 1, 4, 17, 256}
C7_UncompressedFrameSize ==
    (call.op = "frame_size" /\ call.format \in DOMAIN BytesPerPixel
     /\ call.width \in TableDims /\ call.height \in TableDims)
        => /\ IsOk(result)
           /\ FitsU32(result.size)
           /\ AsUsize(result.size) = call.width * call.height * BytesPerPixel[call.format]
C7_Witness ==
    /\ call.op = "frame_size"
    /\ call.format = "Ia88"
    /\ call.width = 256
    /\ call.height = 17
    /\ IsOk(result)
    /\ AsUsize(result.size) = 8704

(***************************************************************************)
(* C8: for every format without a size rule, frame_size fails with         *)
(* UnsupportedImageFormat(format), and get_frame and decode return that    *)
(* error for every frame index, buffer and base offset, before the offset  *)
(* function's result or the buffer is looked at.                           *)
(***************************************************************************)
C8_NoSizeRuleIsUnsupported ==
    (call.op \in {"frame_size", "get_frame", "decode"} /\ call.format \in NoSizeRule)
        => IsUnsupported(result, call.format)
\* a palette image asked for a frame the header does not have, from a buffer
\* too short to hold anything at the base offset
C8_Witness ==
    /\ call.op = "decode"
    /\ image.format = "P8"
    /\ image.width > 0 /\ image.height > 0
    /\ ~FrameValid
    /\ image.offset > Len(image.bytes)
    /\ IsUnsupported(result, "P8")

(***************************************************************************)
(* C9: decode of a Bgr888 image is an RGB8 image of w * h * 3 bytes in     *)
(* which pixel i is the frame's pixel i with its first and third bytes     *)
(* swapped and its middle byte untouched.                                  *)
(***************************************************************************)
C9_Bgr888SwapsFirstAndThird ==
    (call.op = "decode" /\ image.format = "Bgr888" /\ FrameInside)
        => /\ IsOk(result)
           /\ result.image.kind = "ImageRgb8"
           /\ Len(result.image.buf) = Pixels * 3
           /\ \A i \in 0..(Pixels - 1) :
                 /\ result.image.buf[3 * i + 1] = FrameByte(3 * i + 3)
                 /\ result.image.buf[3 * i + 2] = FrameByte(3 * i + 2)
                 /\ result.image.buf[3 * i + 3] = FrameByte(3 * i + 1)

(***************************************************************************)
(* C10: for every format with a size rule and every width and height a u16 *)
(* holds, the u32 arithmetic of frame_size does not overflow: the value    *)
(* returned is the product itself, not the product modulo 2^32.            *)
(***************************************************************************)
ExactFrameBytes(format, width, height) ==
    IF format \in {"Dxt1", "Dxt5"}
    THEN Scale(MulU16(CeilDiv4(width), CeilDiv4(height)), BytesPerBlock(format))
    ELSE Scale(MulU16(width, height), BytesPerPixel[format])
C10_FrameSizeDoesNotOverflow ==
    (call.op = "frame_size" /\ call.format \in (DOMAIN BytesPerPixel) \cup {"Dxt1", "Dxt5"})
        => /\ IsOk(result)
           /\ result.size = ExactFrameBytes(call.format, call.width, call.height)

====
